---- MODULE Spec2Model ----
(***************************************************************************)
(* Used-value geometry resolution of weasy/layout.py: percentage           *)
(* resolution, the page box sizer, the CSS 2.1 block width / margin solver *)
(* and the recursive dispatch of compute_dimensions over a box tree.       *)
(***************************************************************************)
EXTENDS Integers, Sequences, FiniteSets, TLC

VARIABLES
    tree,        \* the box tree: kind and ordered children of every box
    style,       \* box -> computed style (input, read only)
    args,        \* the width / height arguments given to compute_dimensions
    box,         \* box -> used-value attributes written by the pass
    stack,       \* call stack of block_container_dimensions loops
    pc,          \* "start", "running", "done" or "AssertionError"
    pass,        \* number of the current call of compute_dimensions
    dispatched,  \* boxes handed to compute_dimensions in this pass, in order
    first,       \* attributes of every box when the first pass returned
    frame,       \* locals of one block_level_dimensions call, step by step
    phase,       \* position inside that block_level_dimensions call
    input        \* style / containing block / direction given to that call

vars == <<tree, style, args, box, stack, pc, pass, dispatched, first,
          frame, phase, input>>

(***************************************************************************)
(* Numbers.  Lengths are Python floats (layout.py:70 and :215 divide by    *)
(* float literals).  A float is modelled as a binary floating-point value  *)
(* with Precision significant bits, round-to-nearest-even; the integer n   *)
(* stands for n half grid units, so that every result of +, -, * and / is  *)
(* an even integer and halving (layout.py:215) is exact, as it is for      *)
(* Python floats.  'auto' and None are separate tagged values.             *)
(***************************************************************************)
Precision == 3

Num(n) == [k |-> "num", v |-> n]
Auto == [k |-> "auto", v |-> 0]
None == [k |-> "None", v |-> 0]
Unset == [k |-> "unset", v |-> 0]
TypeError == [k |-> "TypeError", v |-> 0]
AssertionError == [k |-> "AssertionError", v |-> 0]

IsNum(x) == x.k = "num"
FromInt(n) == Num(2 * n)

RECURSIVE Pow2(_)
Pow2(n) == IF n = 0 THEN 1 ELSE 2 * Pow2(n - 1)

Abs(n) == IF n < 0 THEN -n ELSE n

RECURSIVE Quantum(_, _, _)
Quantum(a, den, q) ==
    IF a < Pow2(Precision) * q * den THEN q ELSE Quantum(a, den, 2 * q)

RoundHalfEven(a, d) ==
    LET f == a \div d
        r == a % d
    IN  IF 2 * r < d THEN f
        ELSE IF 2 * r > d THEN f + 1
        ELSE IF f % 2 = 0 THEN f ELSE f + 1

\* the float nearest to the rational num / den
RoundQ(num, den) ==
    LET a == Abs(num)
        q == Quantum(a, den, 2)
        m == RoundHalfEven(a, den * q)
    IN  IF num < 0 THEN -(m * q) ELSE m * q

Add(x, y) ==
    IF IsNum(x) /\ IsNum(y) THEN Num(RoundQ(x.v + y.v, 1)) ELSE TypeError

Sub(x, y) ==
    IF IsNum(x) /\ IsNum(y) THEN Num(RoundQ(x.v - y.v, 1)) ELSE TypeError

Mul(x, y) ==
    IF IsNum(x) /\ IsNum(y) THEN Num(RoundQ(x.v * y.v, 2)) ELSE TypeError

Div(x, y) ==
    IF IsNum(x) /\ IsNum(y) /\ y.v > 0
    THEN Num(RoundQ(2 * x.v, y.v)) ELSE TypeError

\* x / 2. : exact in binary floating point
Half(x) == IF IsNum(x) THEN Num(x.v \div 2) ELSE TypeError

Gt(x, y) == x.v > y.v

(***************************************************************************)
(* Computed style values.  A value is the single component of a cssutils   *)
(* value list: its type tag, its unit, its magnitude (a float), and for an *)
(* identifier its keyword.  Every value list has one component, so the    *)
(* len(value) == 1 tests of layout.py:29, :35 and :46 hold.                *)
(***************************************************************************)
Px(n) == [type |-> "DIMENSION", dimension |-> "px", value |-> 2 * n, ident |-> ""]
Pct(n) == [type |-> "PERCENTAGE", dimension |-> "%", value |-> 2 * n, ident |-> ""]
Zero == [type |-> "NUMBER", dimension |-> "", value |-> 0, ident |-> ""]
Ident(s) == [type |-> "IDENT", dimension |-> "", value |-> 0, ident |-> s]

Hundred == FromInt(100)

\* Return the numeric value of a pixel length or None.
pixel_value(value) ==
    IF value.type = "DIMENSION" /\ value.dimension = "px"
    THEN Num(value.value)
    ELSE IF value.type # "IDENT" /\ value.value = 0
         THEN Num(0)
         ELSE None

\* Return the numeric value of a percentage or None.
percentage_value(value) ==
    IF value.type = "PERCENTAGE" THEN Num(value.value) ELSE None

\* The used value resolve_one_percentage gives property_name; refer_to is
\* the length for 100%.
resolve_one_percentage(st, property_name, refer_to) ==
    LET value == st.props[property_name]
        pixels == pixel_value(value)
        percentage == percentage_value(value)
    IN  IF pixels # None THEN pixels
        ELSE IF percentage # None
             THEN Div(Mul(percentage, refer_to), Hundred)
             ELSE IF value.ident = "auto" THEN Auto ELSE AssertionError

\* property_name.replace('-', '_')
AttrName(property_name) ==
    CASE property_name = "margin-left" -> "margin_left"
      [] property_name = "margin-right" -> "margin_right"
      [] property_name = "padding-left" -> "padding_left"
      [] property_name = "padding-right" -> "padding_right"
      [] property_name = "text-indent" -> "text_indent"
      [] property_name = "width" -> "width"
      [] property_name = "min-width" -> "min_width"
      [] property_name = "max-width" -> "max_width"
      [] property_name = "margin-top" -> "margin_top"
      [] property_name = "margin-bottom" -> "margin_bottom"
      [] property_name = "padding-top" -> "padding_top"
      [] property_name = "padding-bottom" -> "padding_bottom"
      [] property_name = "height" -> "height"
      [] property_name = "min-height" -> "min_height"
      [] property_name = "max-height" -> "max_height"

Props == {"margin-left", "margin-right", "padding-left", "padding-right",
          "text-indent", "width", "min-width", "max-width",
          "margin-top", "margin-bottom", "padding-top", "padding-bottom",
          "height", "min-height", "max-height"}

Attrs == {AttrName(p) : p \in Props} \cup
         {"border_top_width", "border_right_width", "border_bottom_width",
          "border_left_width", "outer_width", "outer_height",
          "position_x", "position_y"}

\* a box before the pass has visited it: no used-value attribute is set
NoGeometry == [a \in Attrs |-> Unset]

\* setattr(box, property_name.replace('-', '_'), result)
SetResolved(b, st, property_name, refer_to) ==
    [b EXCEPT ![AttrName(property_name)] =
        resolve_one_percentage(st, property_name, refer_to)]

RECURSIVE ResolveAll(_, _, _, _)
ResolveAll(b, st, props, refer_to) ==
    IF props = <<>> THEN b
    ELSE ResolveAll(SetResolved(b, st, Head(props), refer_to), st,
                    Tail(props), refer_to)

\* a bug: only max-height and height are special-cased when the height of
\* the containing block is unknown
ResolveHeights_min_from_style(b, st, cb_height) ==
    LET b1 == IF cb_height = None \/ st.props["max-height"].ident = "none"
              THEN [b EXCEPT !["max_height"] = None]
              ELSE SetResolved(b, st, "max-height", cb_height)
        b2 == SetResolved(b1, st, "min-height", cb_height)
    IN  IF cb_height = None
        THEN [b2 EXCEPT !["height"] = Auto]
        ELSE SetResolved(b2, st, "height", cb_height)

\* layout.py:105-117
ResolveHeights(b, st, cb_height) ==
    IF cb_height = None
    THEN [b EXCEPT !["min_height"] = Num(0),
                   !["max_height"] = None,
                   !["height"] = Auto]
    ELSE LET b1 == IF st.props["max-height"].ident = "none"
                   THEN [b EXCEPT !["max_height"] = None]
                   ELSE SetResolved(b, st, "max-height", cb_height)
             b2 == SetResolved(b1, st, "min-height", cb_height)
         IN  SetResolved(b2, st, "height", cb_height)

\* Set used values as attributes of the box object.
resolve_percentages(b, st, cb, isPage) ==
    LET cb_width == cb[1]
        cb_height == cb[2]
        b1 == ResolveAll(b, st, <<"margin-left", "margin-right",
                  "padding-left", "padding-right", "text-indent", "width",
                  "min-width">>, cb_width)
        b2 == ResolveAll(b1, st, <<"margin-top", "margin-bottom",
                  "padding-top", "padding-bottom">>,
                  IF isPage THEN cb_height ELSE cb_width)
        b3 == IF st.props["max-width"].ident = "none"
              THEN [b2 EXCEPT !["max_width"] = None]
              ELSE SetResolved(b2, st, "max-width", cb_width)
        b4 == ResolveHeights(b3, st, cb_height)
    IN  [b4 EXCEPT !["border_top_width"] = st.border_top_width,
                   !["border_right_width"] = st.border_right_width,
                   !["border_bottom_width"] = st.border_bottom_width,
                   !["border_left_width"] = st.border_left_width]

(***************************************************************************)
(* block_level_dimensions, layout.py:162-226.  A frame holds the box being *)
(* resolved and the locals of the call.                                    *)
(***************************************************************************)
NoFrame ==
    [box |-> NoGeometry, margin_l |-> Unset, margin_r |-> Unset,
     width |-> Unset, paddings_plus_borders |-> Unset, cb_width |-> Unset,
     direction |-> ""]

\* layout.py:164-184: percentages resolved, locals loaded
Entry(b, st, cb, direction) ==
    LET r == resolve_percentages(b, st, cb, FALSE)
    IN  [box |-> r,
         margin_l |-> r["margin_left"],
         margin_r |-> r["margin_right"],
         width |-> r["width"],
         paddings_plus_borders |->
             Add(Add(Add(r["padding_left"], r["padding_right"]),
                     r["border_left_width"]), r["border_right_width"]),
         cb_width |-> cb[1],
         direction |-> direction]

\* a bug: the relief step compares with >= instead of >
Relief_ge(f) ==
    IF f.box["width"] # Auto
    THEN LET t0 == Add(f.paddings_plus_borders, f.width)
             t1 == IF f.margin_l # Auto THEN Add(t0, f.margin_l) ELSE t0
             total == IF f.margin_r # Auto THEN Add(t1, f.margin_r) ELSE t1
         IN  IF ~Gt(f.cb_width, total)
             THEN LET f1 == IF f.margin_l = Auto
                            THEN [f EXCEPT !.margin_l = Num(0),
                                           !.box["margin_left"] = Num(0)]
                            ELSE f
                  IN  IF f1.margin_r = Auto
                      THEN [f1 EXCEPT !.margin_r = Num(0),
                                      !.box["margin_right"] = Num(0)]
                      ELSE f1
             ELSE f
    ELSE f

\* layout.py:185-195: over-constraint relief
Relief(f) ==
    IF f.box["width"] # Auto
    THEN LET t0 == Add(f.paddings_plus_borders, f.width)
             t1 == IF f.margin_l # Auto THEN Add(t0, f.margin_l) ELSE t0
             total == IF f.margin_r # Auto THEN Add(t1, f.margin_r) ELSE t1
         IN  IF Gt(total, f.cb_width)
             THEN LET f1 == IF f.margin_l = Auto
                            THEN [f EXCEPT !.margin_l = Num(0),
                                           !.box["margin_left"] = Num(0)]
                            ELSE f
                  IN  IF f1.margin_r = Auto
                      THEN [f1 EXCEPT !.margin_r = Num(0),
                                      !.box["margin_right"] = Num(0)]
                      ELSE f1
             ELSE f
    ELSE f

\* a bug: the direction test is inverted
OverDetermined_swapped(f) ==
    IF f.width # Auto /\ f.margin_l # Auto /\ f.margin_r # Auto
    THEN LET margin_sum ==
                 Sub(Sub(f.cb_width, f.paddings_plus_borders), f.width)
         IN  IF f.direction # "ltr"
             THEN LET m == Sub(margin_sum, f.margin_l)
                  IN  [f EXCEPT !.margin_r = m, !.box["margin_right"] = m]
             ELSE LET m == Sub(margin_sum, f.margin_r)
                  IN  [f EXCEPT !.margin_l = m, !.box["margin_left"] = m]
    ELSE f

\* layout.py:196-205: the equation is over-constrained
OverDetermined(f) ==
    IF f.width # Auto /\ f.margin_l # Auto /\ f.margin_r # Auto
    THEN LET margin_sum ==
                 Sub(Sub(f.cb_width, f.paddings_plus_borders), f.width)
         IN  IF f.direction = "ltr"
             THEN LET m == Sub(margin_sum, f.margin_l)
                  IN  [f EXCEPT !.margin_r = m, !.box["margin_right"] = m]
             ELSE LET m == Sub(margin_sum, f.margin_r)
                  IN  [f EXCEPT !.margin_l = m, !.box["margin_left"] = m]
    ELSE f

\* a bug: the auto width forgets the margins
AutoWidth_ignoring_margins(f) ==
    IF f.width = Auto
    THEN LET f1 == IF f.margin_l = Auto
                   THEN [f EXCEPT !.margin_l = Num(0),
                                  !.box["margin_left"] = Num(0)]
                   ELSE f
             f2 == IF f1.margin_r = Auto
                   THEN [f1 EXCEPT !.margin_r = Num(0),
                                   !.box["margin_right"] = Num(0)]
                   ELSE f1
             w == Sub(f2.cb_width, f2.paddings_plus_borders)
         IN  [f2 EXCEPT !.width = w, !.box["width"] = w]
    ELSE f

\* layout.py:206-212: auto width
AutoWidth(f) ==
    IF f.width = Auto
    THEN LET f1 == IF f.margin_l = Auto
                   THEN [f EXCEPT !.margin_l = Num(0),
                                  !.box["margin_left"] = Num(0)]
                   ELSE f
             f2 == IF f1.margin_r = Auto
                   THEN [f1 EXCEPT !.margin_r = Num(0),
                                   !.box["margin_right"] = Num(0)]
                   ELSE f1
             w == Sub(f2.cb_width,
                      Add(Add(f2.paddings_plus_borders, f2.margin_l),
                          f2.margin_r))
         IN  [f2 EXCEPT !.width = w, !.box["width"] = w]
    ELSE f

\* a bug: two auto margins are not split, the left one takes everything
RemainingAutoMargins_left_only(f) ==
    LET margin_sum == Sub(Sub(f.cb_width, f.paddings_plus_borders), f.width)
    IN  IF f.margin_l = Auto /\ f.margin_r = Auto
        THEN [f EXCEPT !.box["margin_left"] = margin_sum,
                       !.box["margin_right"] = Num(0)]
        ELSE IF f.margin_l = Auto /\ f.margin_r # Auto
        THEN [f EXCEPT !.box["margin_left"] = Sub(margin_sum, f.margin_r)]
        ELSE IF f.margin_l # Auto /\ f.margin_r = Auto
        THEN [f EXCEPT !.box["margin_right"] = Sub(margin_sum, f.margin_l)]
        ELSE f

\* layout.py:213-220: the remaining auto margins
RemainingAutoMargins(f) ==
    LET margin_sum == Sub(Sub(f.cb_width, f.paddings_plus_borders), f.width)
    IN  IF f.margin_l = Auto /\ f.margin_r = Auto
        THEN [f EXCEPT !.box["margin_left"] = Half(margin_sum),
                       !.box["margin_right"] = Half(margin_sum)]
        ELSE IF f.margin_l = Auto /\ f.margin_r # Auto
        THEN [f EXCEPT !.box["margin_left"] = Sub(margin_sum, f.margin_r)]
        ELSE IF f.margin_l # Auto /\ f.margin_r = Auto
        THEN [f EXCEPT !.box["margin_right"] = Sub(margin_sum, f.margin_l)]
        ELSE f

\* the sum of layout.py:223-225
BoxModelTotal(b) ==
    Add(Add(Add(Add(Add(Add(b["margin_left"], b["margin_right"]),
                            b["padding_left"]), b["padding_right"]),
                    b["border_left_width"]), b["border_right_width"]),
        b["width"])

\* layout.py:222-226: the sanity check passes
SanityCheck(f) == BoxModelTotal(f.box) = f.cb_width

\* the frame of a whole block_level_dimensions call, before its assertion
Solve(b, st, cb, direction) ==
    RemainingAutoMargins(AutoWidth(OverDetermined(Relief(
        Entry(b, st, cb, direction)))))

(***************************************************************************)
(* Inputs.                                                                 *)
(***************************************************************************)
MakeStyle(ml, mr, w, pl, pr, bl, br, h, minh, maxh, direction) ==
    [props |-> [p \in Props |->
        CASE p = "margin-left" -> ml
          [] p = "margin-right" -> mr
          [] p = "width" -> w
          [] p = "padding-left" -> pl
          [] p = "padding-right" -> pr
          [] p = "height" -> h
          [] p = "min-height" -> minh
          [] p = "max-height" -> maxh
          [] p = "max-width" -> Ident("none")
          [] OTHER -> Px(0)],
     border_top_width |-> Num(0),
     border_right_width |-> br,
     border_bottom_width |-> Num(0),
     border_left_width |-> bl,
     direction |-> direction]

Directions == {"ltr", "rtl"}

\* one call of block_level_dimensions: style, containing block and the
\* parent's direction
WidthInputs ==
    { [style |-> MakeStyle(ml, mr, w, pl, pr, bl, br, Ident("auto"), Px(0),
                           Ident("none"), "ltr"),
       cb |-> <<cbw, None>>, direction |-> d] :
        ml \in {Ident("auto"), Px(1), Px(5), Pct(10)},
        mr \in {Ident("auto"), Px(1), Px(5), Pct(10)},
        w \in {Ident("auto"), Px(3), Px(12), Pct(50)},
        pl \in {Px(0), Px(1)}, pr \in {Px(0), Pct(10)},
        bl \in {Num(0), FromInt(1)}, br \in {Num(0), FromInt(2)},
        cbw \in {FromInt(10), FromInt(20)}, d \in Directions }

HeightInputs ==
    { [style |-> MakeStyle(Ident("auto"), Ident("auto"), Ident("auto"),
                           Px(0), Px(0), Num(0), Num(0), h, minh, maxh, "ltr"),
       cb |-> <<FromInt(10), cbh>>, direction |-> "ltr"] :
        h \in {Ident("auto"), Px(4), Pct(50)},
        minh \in {Px(0), Zero, Pct(10)},
        maxh \in {Ident("none"), Px(6), Pct(100)},
        cbh \in {None, FromInt(6), FromInt(20)} }

SolverInputs == WidthInputs \cup HeightInputs

(***************************************************************************)
(* One call of block_level_dimensions, step by step.                       *)
(***************************************************************************)
WalkIdle ==
    /\ tree = [kind |-> <<>>, children |-> <<>>]
    /\ style = <<>>
    /\ args = <<None, None>>
    /\ box = <<>>
    /\ stack = <<>>
    /\ pc = "idle"
    /\ pass = 0
    /\ dispatched = <<>>
    /\ first = <<>>

walkVars == <<tree, style, args, box, stack, pc, pass, dispatched, first>>

SolverInit ==
    /\ WalkIdle
    /\ input \in SolverInputs
    /\ frame = NoFrame
    /\ phase = "call"

SolverEntry ==
    /\ phase = "call"
    /\ frame' = Entry(NoGeometry, input.style, input.cb, input.direction)
    /\ phase' = "relief"
    /\ UNCHANGED <<input, walkVars>>

SolverRelief ==
    /\ phase = "relief"
    /\ frame' = Relief(frame)
    /\ phase' = "overdetermined"
    /\ UNCHANGED <<input, walkVars>>

SolverOverDetermined ==
    /\ phase = "overdetermined"
    /\ frame' = OverDetermined(frame)
    /\ phase' = "autowidth"
    /\ UNCHANGED <<input, walkVars>>

SolverAutoWidth ==
    /\ phase = "autowidth"
    /\ frame' = AutoWidth(frame)
    /\ phase' = "margins"
    /\ UNCHANGED <<input, walkVars>>

SolverRemainingAutoMargins ==
    /\ phase = "margins"
    /\ frame' = RemainingAutoMargins(frame)
    /\ phase' = "sanity"
    /\ UNCHANGED <<input, walkVars>>

SolverSanityCheck ==
    /\ phase = "sanity"
    /\ phase' = IF SanityCheck(frame) THEN "returned" ELSE "AssertionError"
    /\ UNCHANGED <<frame, input, walkVars>>

SolverNext ==
    \/ SolverEntry
    \/ SolverRelief
    \/ SolverOverDetermined
    \/ SolverAutoWidth
    \/ SolverRemainingAutoMargins
    \/ SolverSanityCheck

SolverSpec == SolverInit /\ [][SolverNext]_vars

(***************************************************************************)
(* The box tree and the dispatch of compute_dimensions.                    *)
(***************************************************************************)
MaxPasses == 2

Boxes == 1 .. Len(tree.kind)
Root == 1
Range(seq) == {seq[i] : i \in 1 .. Len(seq)}
Children(b) == tree.children[b]
Parent(b) == CHOOSE p \in Boxes : b \in Range(Children(p))

\* the nearest ancestor whose box model the pass resolves
RECURSIVE ContainingBlock(_)
ContainingBlock(b) ==
    LET p == Parent(b)
    IN  IF tree.kind[p] = "BlockContainer" THEN ContainingBlock(p) ELSE p

\* (width, height) of the containing block; the height is None when it is
\* not known yet
containing_block_size(bx, b) ==
    IF tree.kind[b] = "Page"
    THEN <<bx[b]["outer_width"], bx[b]["outer_height"]>>
    ELSE LET a == ContainingBlock(b)
         IN  <<bx[a]["width"],
               IF bx[a]["height"] = Auto THEN None ELSE bx[a]["height"]>>

\* computed_values.LENGTHS_TO_PIXELS['mm']: 96 pixels per 25.4 mm
LENGTHS_TO_PIXELS_mm == Div(FromInt(960), FromInt(254))

\* the handler MultiFunction picks for a box of this kind
Handler(kind) ==
    CASE kind = "Page" -> "page_dimensions"
      [] kind = "Block" -> "block_dimensions"
      [] kind = "BlockLevel" -> "block_level_dimensions"
      [] kind = "BlockContainer" -> "block_container_dimensions"
      [] kind = "Line" -> "line_dimensions"

\* a bug: a page box resolved before is sized from its previous content
\* width instead of its outer size
PageDimensions_stale(bx, b, st, width, height) ==
    LET outer_width == IF bx[b]["width"] # Unset THEN bx[b]["width"]
                       ELSE IF width = None
                       THEN Mul(FromInt(210), LENGTHS_TO_PIXELS_mm)
                       ELSE width
        outer_height == IF height = None
                        THEN Mul(FromInt(297), LENGTHS_TO_PIXELS_mm)
                        ELSE height
        b1 == [bx EXCEPT ![b]["outer_width"] = outer_width,
                         ![b]["outer_height"] = outer_height]
        r == resolve_percentages(b1[b], st, containing_block_size(b1, b), TRUE)
    IN  [r EXCEPT !["position_x"] = r["margin_left"],
                  !["position_y"] = r["margin_top"],
                  !["width"] = Sub(Sub(outer_width, r["margin_left"]),
                                   r["margin_right"]),
                  !["height"] = Sub(Sub(outer_height, r["margin_top"]),
                                    r["margin_bottom"])]

\* layout.py:136-151: the attributes page_dimensions gives the page box b
PageDimensions(bx, b, st, width, height) ==
    LET outer_width == IF width = None
                       THEN Mul(FromInt(210), LENGTHS_TO_PIXELS_mm)
                       ELSE width
        outer_height == IF height = None
                        THEN Mul(FromInt(297), LENGTHS_TO_PIXELS_mm)
                        ELSE height
        b1 == [bx EXCEPT ![b]["outer_width"] = outer_width,
                         ![b]["outer_height"] = outer_height]
        r == resolve_percentages(b1[b], st, containing_block_size(b1, b), TRUE)
    IN  [r EXCEPT !["position_x"] = r["margin_left"],
                  !["position_y"] = r["margin_top"],
                  !["width"] = Sub(Sub(outer_width, r["margin_left"]),
                                   r["margin_right"]),
                  !["height"] = Sub(Sub(outer_height, r["margin_top"]),
                                    r["margin_bottom"])]

Top == stack[Len(stack)]
Calling == pc = "running" /\ Top.i <= Len(Children(Top.box))
NextChild == Children(Top.box)[Top.i]
Advance == [stack EXCEPT ![Len(stack)].i = Top.i + 1]
solverVars == <<frame, phase, input>>

\* compute_dimensions(page, width, height): layout.py:133-153
page_dimensions ==
    /\ pc = "start"
    /\ box' = [box EXCEPT ![Root] =
                   PageDimensions(box, Root, style[Root], args[1], args[2])]
    /\ stack' = <<[box |-> Root, i |-> 1]>>
    /\ dispatched' = <<Root>>
    /\ pc' = "running"
    /\ UNCHANGED <<tree, style, args, pass, first, solverVars>>

\* a bug: block_dimensions recurses into the children without resolving
\* the block itself
block_dimensions_without_solver ==
    /\ Calling
    /\ Handler(tree.kind[NextChild]) = "block_dimensions"
    /\ stack' = Append(Advance, [box |-> NextChild, i |-> 1])
    /\ dispatched' = Append(dispatched, NextChild)
    /\ UNCHANGED <<tree, style, args, box, pc, pass, first, solverVars>>

\* compute_dimensions(child) on a BlockBox: layout.py:229-232
block_dimensions ==
    /\ Calling
    /\ Handler(tree.kind[NextChild]) = "block_dimensions"
    /\ LET c == NextChild
           f == Solve(box[c], style[c], containing_block_size(box, c),
                      style[Parent(c)].direction)
       IN  /\ box' = [box EXCEPT ![c] = f.box]
           /\ dispatched' = Append(dispatched, c)
           /\ IF SanityCheck(f)
              THEN /\ stack' = Append(Advance, [box |-> c, i |-> 1])
                   /\ pc' = pc
              ELSE /\ stack' = <<>>
                   /\ pc' = "AssertionError"
    /\ UNCHANGED <<tree, style, args, pass, first, solverVars>>

\* a bug: the handler of block-level boxes does nothing
block_level_dimensions_pass ==
    /\ Calling
    /\ Handler(tree.kind[NextChild]) = "block_level_dimensions"
    /\ stack' = Advance
    /\ dispatched' = Append(dispatched, NextChild)
    /\ UNCHANGED <<tree, style, args, box, pc, pass, first, solverVars>>

\* compute_dimensions(child) on a BlockLevelBox: layout.py:162-226
block_level_dimensions ==
    /\ Calling
    /\ Handler(tree.kind[NextChild]) = "block_level_dimensions"
    /\ LET c == NextChild
           f == Solve(box[c], style[c], containing_block_size(box, c),
                      style[Parent(c)].direction)
       IN  /\ box' = [box EXCEPT ![c] = f.box]
           /\ dispatched' = Append(dispatched, c)
           /\ IF SanityCheck(f)
              THEN /\ stack' = Advance
                   /\ pc' = pc
              ELSE /\ stack' = <<>>
                   /\ pc' = "AssertionError"
    /\ UNCHANGED <<tree, style, args, pass, first, solverVars>>

\* compute_dimensions(child) on a plain BlockContainerBox: layout.py:156-159
block_container_dimensions ==
    /\ Calling
    /\ Handler(tree.kind[NextChild]) = "block_container_dimensions"
    /\ stack' = Append(Advance, [box |-> NextChild, i |-> 1])
    /\ dispatched' = Append(dispatched, NextChild)
    /\ UNCHANGED <<tree, style, args, box, pc, pass, first, solverVars>>

\* compute_dimensions(child) on a LineBox: layout.py:235-237
line_dimensions ==
    /\ Calling
    /\ Handler(tree.kind[NextChild]) = "line_dimensions"
    /\ stack' = Advance
    /\ dispatched' = Append(dispatched, NextChild)
    /\ UNCHANGED <<tree, style, args, box, pc, pass, first, solverVars>>

\* the loop of layout.py:158 is exhausted: the handler returns
block_container_return ==
    /\ pc = "running"
    /\ Top.i > Len(Children(Top.box))
    /\ stack' = SubSeq(stack, 1, Len(stack) - 1)
    /\ pc' = IF Len(stack) = 1 THEN "done" ELSE pc
    /\ first' = IF Len(stack) = 1 /\ pass = 1 THEN box ELSE first
    /\ UNCHANGED <<tree, style, args, box, pass, dispatched, solverVars>>

\* the caller runs compute_dimensions once more on the same tree
compute_dimensions_again ==
    /\ pc = "done"
    /\ pass < MaxPasses
    /\ pass' = pass + 1
    /\ pc' = "start"
    /\ dispatched' = <<>>
    /\ stack' = <<>>
    /\ UNCHANGED <<tree, style, args, box, first, solverVars>>

(***************************************************************************)
(* Input trees and styles of the pass.                                     *)
(***************************************************************************)
Trees ==
    { [kind |-> <<"Page", "Block", "Block", "Line", "BlockLevel">>,
       children |-> << <<2, 5>>, <<3, 4>>, <<>>, <<>>, <<>> >>],
      [kind |-> <<"Page", "BlockContainer", "Block", "Line", "BlockLevel">>,
       children |-> << <<2, 5>>, <<4, 3>>, <<>>, <<>>, <<>> >>],
      [kind |-> <<"Page", "Block", "Block", "Line">>,
       children |-> << <<2>>, <<3>>, <<4>>, <<>> >>],
      [kind |-> <<"Page", "Line", "BlockLevel">>,
       children |-> << <<3, 2>>, <<>>, <<>> >>] }

DefaultStyle ==
    MakeStyle(Px(0), Px(0), Ident("auto"), Px(0), Px(0), Num(0), Num(0),
              Ident("auto"), Px(0), Ident("none"), "ltr")

PageStyles ==
    { MakeStyle(ml, Px(1), Ident("auto"), pl, Px(0), Num(0), Num(0),
                Ident("auto"), Px(0), Ident("none"), d) :
        ml \in {Px(0), Pct(10)}, pl \in {Px(0), Px(1)}, d \in Directions }

BlockStyles ==
    { MakeStyle(Ident("auto"), Ident("auto"), Ident("auto"), Px(0), Px(0),
                Num(0), Num(0), Ident("auto"), Px(0), Ident("none"), "ltr"),
      MakeStyle(Ident("auto"), Ident("auto"), Px(4), Px(0), Px(0),
                Num(0), Num(0), Px(4), Px(0), Ident("none"), "rtl"),
      MakeStyle(Px(1), Px(1), Pct(50), Px(0), Px(0),
                Num(0), Num(0), Pct(50), Zero, Px(6), "ltr"),
      MakeStyle(Pct(10), Px(2), Ident("auto"), Px(0), Pct(10),
                Num(0), Num(0), Px(2), Px(0), Ident("none"), "ltr") }

ContainerStyles ==
    { MakeStyle(Px(0), Px(0), Ident("auto"), Px(0), Px(0), Num(0), Num(0),
                Ident("auto"), Px(0), Ident("none"), d) : d \in Directions }

StylesOf(kind) ==
    CASE kind = "Page" -> PageStyles
      [] kind \in {"Block", "BlockLevel"} -> BlockStyles
      [] kind = "BlockContainer" -> ContainerStyles
      [] OTHER -> {DefaultStyle}

\* every way to give each box of the tree a style of its kind
RECURSIVE StyleAssignments(_)
StyleAssignments(kinds) ==
    IF kinds = <<>> THEN {<<>>}
    ELSE {<<s>> \o rest : s \in StylesOf(Head(kinds)),
                          rest \in StyleAssignments(Tail(kinds))}

PageSizes == {<<None, None>>, <<FromInt(6), FromInt(12)>>,
              <<FromInt(7), None>>}

SolverIdle == frame = NoFrame /\ phase = "idle" /\ input = <<>>

Init ==
    /\ tree \in Trees
    /\ style \in StyleAssignments(tree.kind)
    /\ args \in PageSizes
    /\ box = [b \in 1 .. Len(tree.kind) |-> NoGeometry]
    /\ stack = <<>>
    /\ pc = "start"
    /\ pass = 1
    /\ dispatched = <<>>
    /\ first = box
    /\ SolverIdle

Next ==
    \/ page_dimensions
    \/ block_dimensions
    \/ block_level_dimensions
    \/ block_container_dimensions
    \/ line_dimensions
    \/ block_container_return
    \/ compute_dimensions_again

Spec == Init /\ [][Next]_vars

(***************************************************************************)
(* Properties of one block_level_dimensions call (SolverSpec).             *)
(***************************************************************************)
\* the values percentage resolution gives the call's style
CBW == input.cb[1]
StyleMarginLeft == resolve_one_percentage(input.style, "margin-left", CBW)
StyleMarginRight == resolve_one_percentage(input.style, "margin-right", CBW)
StyleWidth == resolve_one_percentage(input.style, "width", CBW)
StylePaddingsPlusBorders ==
    Add(Add(Add(resolve_one_percentage(input.style, "padding-left", CBW),
                resolve_one_percentage(input.style, "padding-right", CBW)),
            input.style.border_left_width), input.style.border_right_width)
\* CBW - paddings_plus_borders - width
StyleMarginSum == Sub(Sub(CBW, StylePaddingsPlusBorders), StyleWidth)
\* paddings_plus_borders + width + each numeric margin
StyleTotal ==
    LET t0 == Add(StylePaddingsPlusBorders, StyleWidth)
        t1 == IF IsNum(StyleMarginLeft) THEN Add(t0, StyleMarginLeft) ELSE t0
    IN  IF IsNum(StyleMarginRight) THEN Add(t1, StyleMarginRight) ELSE t1

Resolved == phase \in {"sanity", "returned", "AssertionError"}
UsedMarginLeft == frame.box["margin_left"]
UsedMarginRight == frame.box["margin_right"]
UsedWidth == frame.box["width"]

\* C1: when the solver finishes, width and both margins are numeric and the
\* box-model sum equals the containing-block width exactly: the sanity
\* assertion never fails.
C1_SanityNeverFails ==
    /\ phase # "AssertionError"
    /\ phase \in {"sanity", "returned"} =>
          /\ IsNum(UsedWidth)
          /\ IsNum(UsedMarginLeft)
          /\ IsNum(UsedMarginRight)
          /\ BoxModelTotal(frame.box) = frame.cb_width

\* C3: with width and both margins numeric after percentage resolution, the
\* solver overwrites one margin: under 'ltr' margin_right becomes
\* CBW - paddings_plus_borders - width - margin_left and margin_left and
\* width keep their style values; otherwise margin_left becomes
\* CBW - paddings_plus_borders - width - margin_right and margin_right and
\* width are unchanged.
C3_OverDetermined ==
    (Resolved /\ IsNum(StyleWidth) /\ IsNum(StyleMarginLeft)
              /\ IsNum(StyleMarginRight)) =>
        /\ UsedWidth = StyleWidth
        /\ IF input.direction = "ltr"
           THEN /\ UsedMarginRight = Sub(StyleMarginSum, StyleMarginLeft)
                /\ UsedMarginLeft = StyleMarginLeft
           ELSE /\ UsedMarginLeft = Sub(StyleMarginSum, StyleMarginRight)
                /\ UsedMarginRight = StyleMarginRight

C3_Witness ==
    /\ phase = "returned"
    /\ IsNum(StyleWidth) /\ IsNum(StyleMarginLeft) /\ IsNum(StyleMarginRight)
    /\ input.direction = "ltr"
    /\ UsedMarginRight # StyleMarginRight
    /\ UsedMarginLeft = StyleMarginLeft

C5_EvenSplit ==
    (Resolved /\ IsNum(StyleWidth) /\ ~Gt(StyleTotal, CBW)) =>
        /\ UsedWidth = StyleWidth
        /\ (StyleMarginLeft = Auto /\ StyleMarginRight = Auto) =>
              /\ UsedMarginLeft = Half(StyleMarginSum)
              /\ UsedMarginRight = Half(StyleMarginSum)
        /\ (StyleMarginLeft = Auto /\ IsNum(StyleMarginRight)) =>
              /\ UsedMarginLeft = Sub(StyleMarginSum, StyleMarginRight)
              /\ UsedMarginRight = StyleMarginRight
        /\ (IsNum(StyleMarginLeft) /\ StyleMarginRight = Auto) =>
              /\ UsedMarginRight = Sub(StyleMarginSum, StyleMarginLeft)
              /\ UsedMarginLeft = StyleMarginLeft

C5_Witness ==
    /\ phase = "returned"
    /\ IsNum(StyleWidth) /\ ~Gt(StyleTotal, CBW)
    /\ StyleMarginLeft = Auto /\ StyleMarginRight = Auto
    /\ UsedMarginLeft = UsedMarginRight
    /\ Gt(UsedMarginLeft, Num(0))
    /\ UsedMarginLeft.v % 2 = 1

\* C6: with an unknown containing-block height, resolve_percentages gives
\* min_height 0, max_height None and height 'auto' whatever the style says;
\* with a known height, max-height ('none' gives None), min-height and
\* height are each resolved against it.
C6_UnknownHeight ==
    phase # "call" =>
        IF input.cb[2] = None
        THEN /\ frame.box["min_height"] = Num(0)
             /\ frame.box["max_height"] = None
             /\ frame.box["height"] = Auto
        ELSE /\ frame.box["max_height"] =
                   (IF input.style.props["max-height"] = Ident("none")
                    THEN None
                    ELSE resolve_one_percentage(input.style, "max-height",
                                                input.cb[2]))
             /\ frame.box["min_height"] =
                   resolve_one_percentage(input.style, "min-height",
                                          input.cb[2])
             /\ frame.box["height"] =
                   resolve_one_percentage(input.style, "height", input.cb[2])

C6_Witness ==
    /\ phase = "relief"
    /\ input.cb[2] = None
    /\ input.style.props["height"].type = "PERCENTAGE"
    /\ input.style.props["min-height"].type = "PERCENTAGE"
    /\ input.style.props["max-height"].type = "DIMENSION"
    /\ frame.box["height"] = Auto

\* C10: with a numeric width and paddings_plus_borders + width + the numeric
\* margins > CBW, the relief step forces each 'auto' margin to 0, so that
\* the box is then resolved as over-determined; with that total <= CBW the
\* relief step changes no margin; it never changes a numeric margin or the
\* width.
OverConstrained == IsNum(StyleWidth) /\ Gt(StyleTotal, CBW)

C10_Relief ==
    /\ phase = "overdetermined" =>
          /\ frame.width = StyleWidth /\ UsedWidth = StyleWidth
          /\ frame.margin_l = UsedMarginLeft
          /\ frame.margin_r = UsedMarginRight
          /\ UsedMarginLeft =
                (IF OverConstrained /\ StyleMarginLeft = Auto
                 THEN Num(0) ELSE StyleMarginLeft)
          /\ UsedMarginRight =
                (IF OverConstrained /\ StyleMarginRight = Auto
                 THEN Num(0) ELSE StyleMarginRight)
    /\ (Resolved /\ OverConstrained) =>
          LET l == IF StyleMarginLeft = Auto THEN Num(0) ELSE StyleMarginLeft
              r == IF StyleMarginRight = Auto THEN Num(0) ELSE StyleMarginRight
          IN  IF input.direction = "ltr"
              THEN /\ UsedMarginLeft = l
                   /\ UsedMarginRight = Sub(StyleMarginSum, l)
              ELSE /\ UsedMarginRight = r
                   /\ UsedMarginLeft = Sub(StyleMarginSum, r)

C10_Witness ==
    /\ phase = "overdetermined"
    /\ OverConstrained
    /\ StyleMarginLeft = Auto
    /\ IsNum(StyleMarginRight)
    /\ UsedMarginLeft = Num(0)
    /\ UsedMarginRight = StyleMarginRight

(***************************************************************************)
(* Properties of the pass over a tree (Spec).                              *)
(***************************************************************************)
KindOf(b) == tree.kind[b]
BoxModelAttrs ==
    Attrs \ {"outer_width", "outer_height", "position_x", "position_y"}
HasGeometry(b) == \A a \in BoxModelAttrs : box[b][a] # Unset
PageResolved == pc # "idle" /\ dispatched # <<>>

\* C2: after page_dimensions, margin_left + border_left_width + padding_left
\* + width + padding_right + border_right_width + margin_right of the page
\* equals its outer_width exactly.
C2_PageBoxModel ==
    PageResolved =>
        Add(Add(Add(Add(Add(Add(box[Root]["margin_left"],
                                box[Root]["border_left_width"]),
                            box[Root]["padding_left"]),
                        box[Root]["width"]),
                    box[Root]["padding_right"]),
                box[Root]["border_right_width"]),
            box[Root]["margin_right"]) = box[Root]["outer_width"]

C8_Idempotent ==
    /\ [](pc = "done" /\ pass > 1 => box = first)
    /\ [][style' = style]_vars

C8_Witness ==
    /\ pc = "done"
    /\ pass = 2
    /\ Len(tree.kind) >= 4
    /\ \E b \in Boxes :
          /\ KindOf(b) = "Block"
          /\ style[b].props["margin-left"] = Ident("auto")
          /\ box[b]["margin_left"] # Num(0)

\* C9: a child is dispatched only after its parent was dispatched and the
\* parent's own geometry is final, the children of a box are dispatched in
\* their sequence order, no box is dispatched twice in a pass, and no
\* attribute of a box is written once one of its children was dispatched.
Position(b) == CHOOSE i \in 1 .. Len(dispatched) : dispatched[i] = b
Dispatched(b) == b \in Range(dispatched)
GeometryFinal(p) ==
    /\ KindOf(p) = "Page" =>
          /\ IsNum(box[p]["position_x"]) /\ IsNum(box[p]["position_y"])
          /\ IsNum(box[p]["width"]) /\ IsNum(box[p]["height"])
    /\ KindOf(p) = "Block" =>
          /\ IsNum(box[p]["width"])
          /\ IsNum(box[p]["margin_left"]) /\ IsNum(box[p]["margin_right"])
          /\ BoxModelTotal(box[p]) = containing_block_size(box, p)[1]

ParentBeforeChild ==
    /\ \A i, j \in 1 .. Len(dispatched) :
          i # j => dispatched[i] # dispatched[j]
    /\ \A c \in Range(dispatched) \ {Root} :
          LET p == Parent(c)
          IN  /\ Dispatched(p) /\ Position(p) < Position(c)
              /\ GeometryFinal(p)
              /\ \A k \in 1 .. Len(Children(p)) :
                    \A m \in 1 .. k - 1 :
                        Children(p)[k] = c =>
                            /\ Dispatched(Children(p)[m])
                            /\ Position(Children(p)[m]) < Position(c)

FixedOnceChildDispatched ==
    \A b \in Boxes :
        (\E c \in Range(Children(b)) : Dispatched(c)) => box'[b] = box[b]

C9_ParentBeforeChild ==
    /\ []ParentBeforeChild
    /\ [][FixedOnceChildDispatched]_vars

C9_Witness ==
    /\ pc = "done"
    /\ Len(dispatched) = 5
    /\ KindOf(2) = "Block" /\ KindOf(3) = "Block"
    /\ dispatched = <<1, 2, 3, 4, 5>>

====
